---- MODULE Spec2Model ----
(***************************************************************************)
(* State-machine model of the chat client component `App`                  *)
(* (frontend/src/App.js).                                                   *)
(*                                                                          *)
(* The React state cells (useState, lines 10-17) are the variables.  Every *)
(* handler of the component is one action; an async function is one action *)
(* per run-to-completion segment (up to its await, and the continuation    *)
(* that runs when the awaited promise settles).  The host's event loop     *)
(* runs one segment at a time, and a segment's state updates are rendered  *)
(* before the next event is dispatched.                                    *)
(*                                                                          *)
(* The environment is the user (typing, clicking, pressing keys), the HTTP *)
(* server (answers to GET /api/messages and POST /api/register) and the    *)
(* browser's WebSocket objects, which fire the open / message / error /    *)
(* close hooks installed by connectWebSocket.                              *)
(***************************************************************************)
EXTENDS Naturals, Sequences, FiniteSets

(***************************************************************************)
(* Bounds of the model.                                                     *)
(***************************************************************************)
MaxMsgs == 2       \* longest message list explored
MaxSent == 2       \* most outbound frames explored

(***************************************************************************)
(* Text.  A string is a sequence of characters, so that trim and           *)
(* encodeURIComponent are computed and not assumed.                         *)
(***************************************************************************)
\* what the user may have typed into a text field: nothing, only white
\* space, a word, a word with white space around it, two words
Texts ==
    { <<>>, <<" ">>, <<"a">>, <<" ", "a", " ">>, <<"a", " ", "a">> }

IsWhiteSpace(c) == c = " "

RECURSIVE trimStart(_)
trimStart(s) ==
    IF s = <<>> THEN <<>>
    ELSE IF IsWhiteSpace(Head(s)) THEN trimStart(Tail(s)) ELSE s

RECURSIVE trimEnd(_)
trimEnd(s) ==
    IF s = <<>> THEN <<>>
    ELSE IF IsWhiteSpace(s[Len(s)]) THEN trimEnd(SubSeq(s, 1, Len(s) - 1)) ELSE s

\* String.prototype.trim
trim(s) == trimEnd(trimStart(s))

\* a JavaScript string is falsy exactly when it is empty
Falsy(s) == s = <<>>

\* encodeURIComponent: unreserved characters are kept, a space becomes %20
EncodeChar(c) == IF c = " " THEN <<"%", "2", "0">> ELSE <<c>>

RECURSIVE encodeURIComponent(_)
encodeURIComponent(s) ==
    IF s = <<>> THEN <<>>
    ELSE EncodeChar(Head(s)) \o encodeURIComponent(Tail(s))

(***************************************************************************)
(* Data.                                                                    *)
(***************************************************************************)
UserIds == {"u1"}

\* the value of currentUser before registration (null, line 10)
NoUser == [id |-> "null", username |-> <<>>]

\* the value of ws before connectWebSocket (null, line 15)
NoSocket == 0

\* a username the server may return instead of echoing the request
ServerName == <<"a", "a">>

\* the bodies a successful POST /api/register may carry for a request
RegisterResponses(req) ==
    {[id |-> i, username |-> n] : i \in UserIds, n \in {req.username, ServerName}}

\* the failures of POST /api/register: a server answer with a detail, a
\* server answer without one, and no answer at all (network failure)
RegisterErrors ==
    { [response |-> TRUE, detail |-> "Username already taken"],
      [response |-> TRUE, detail |-> ""],
      [response |-> FALSE, detail |-> ""] }

NoError == [response |-> FALSE, detail |-> "none"]

\* Message records as the server holds them
M1 == [id |-> "m1", user_id |-> "u1", username |-> <<"a">>,
       content |-> "hi", timestamp |-> "t1"]
M2 == [id |-> "m2", user_id |-> "u2", username |-> <<"a", "a">>,
       content |-> "yo", timestamp |-> "t2"]
\* the bodies a successful GET /api/messages may carry
Histories == { <<>>, <<M1>> }

R1 == [id |-> "u1", username |-> <<"a">>]
R2 == [id |-> "u2", username |-> <<"a", "a">>]

Rosters == { <<>>, <<R1, R2>> }

\* a parsed inbound frame; a field a frame does not carry reads as absent
MessageFrame(m) ==
    [type |-> "message", id |-> m.id, user_id |-> m.user_id,
     username |-> m.username, content |-> m.content,
     timestamp |-> m.timestamp, users |-> <<>>]

UsersOnlineFrame(r) ==
    [type |-> "users_online", id |-> "", user_id |-> "", username |-> <<>>,
     content |-> "", timestamp |-> "", users |-> r]

\* a frame with a tag the client does not know, carrying both payloads
OtherFrame(tag) ==
    [type |-> tag, id |-> "m2", user_id |-> "u2", username |-> <<"a", "a">>,
     content |-> "yo", timestamp |-> "t2", users |-> <<R1>>]

NoFrame ==
    [type |-> "", id |-> "", user_id |-> "", username |-> <<>>,
     content |-> "", timestamp |-> "", users |-> <<>>]

Frames ==
    {MessageFrame(M1), MessageFrame(M2)}
        \cup {UsersOnlineFrame(r) : r \in Rosters}
        \cup {OtherFrame("typing")}

\* event.data of a MessageEvent: text that is JSON for a frame, or text
\* that is not JSON at all
EventData ==
    {[json |-> TRUE, value |-> f] : f \in Frames}
        \cup {[json |-> FALSE, value |-> NoFrame]}

(***************************************************************************)
(* State.                                                                   *)
(***************************************************************************)
VARIABLES
    currentUser,   \* useState(null), line 10
    username,      \* useState(''), line 11
    messages,      \* useState([]), line 12
    newMessage,    \* useState(''), line 13
    onlineUsers,   \* useState([]), line 14
    ws,            \* useState(null), line 15: index into sockets, or NoSocket
    isConnected,   \* useState(false), line 16
    registering,   \* useState(false), line 17
    sockets,       \* every WebSocket object constructed so far (line 62)
    sent,          \* every ws.send call so far, in order (line 101)
    posts,         \* POST /api/register requests in flight (line 47)
    getState,      \* the GET /api/messages of loadMessages (line 35)
    lastAlert,     \* the text of the last alert shown (line 55)
    event          \* the handler that ran last, what it was given, how it ended

vars == <<currentUser, username, messages, newMessage, onlineUsers, ws,
          isConnected, registering, sockets, sent, posts, getState,
          lastAlert, event>>

view == <<currentUser, username, messages, newMessage, onlineUsers, ws,
          isConnected, registering>>

net == <<sockets, sent, posts, getState, lastAlert>>

\* the record of a handler run: the handler and how it ended (op), and the
\* input it was given: a parsed frame, a registered user, a registration
\* error, or the body of the bulk load
Ran(op, frame, user, error) ==
    [op |-> op, frame |-> frame, user |-> user, error |-> error,
     data |-> <<>>]

Did(op) == Ran(op, NoFrame, NoUser, NoError)

Loaded(data) == [Did("loadMessages") EXCEPT !.data = data]

(***************************************************************************)
(* Init: the component has mounted; the mount effect (lines 29-31) has     *)
(* called loadMessages, whose GET is in flight.                            *)
(***************************************************************************)
Init ==
    /\ currentUser = NoUser
    /\ username = <<>>
    /\ messages = <<>>
    /\ newMessage = <<>>
    /\ onlineUsers = <<>>
    /\ ws = NoSocket
    /\ isConnected = FALSE
    /\ registering = FALSE
    /\ sockets = <<>>
    /\ sent = <<>>
    /\ posts = <<>>
    /\ getState = "pending"
    /\ lastAlert = ""
    /\ event = Did("mount")

(***************************************************************************)
(* loadMessages (lines 33-40): the continuation after the await.           *)
(***************************************************************************)
loadMessages_resolved(data) ==
    /\ getState = "pending"
    /\ getState' = "done"
    /\ messages' = data
    /\ event' = Loaded(data)
    /\ UNCHANGED <<currentUser, username, newMessage, onlineUsers, ws,
                   isConnected, registering, sockets, sent, posts,
                   lastAlert>>

loadMessages_rejected ==
    /\ getState = "pending"
    /\ getState' = "failed"
    /\ event' = Did("loadMessages:catch")
    /\ UNCHANGED <<view, sockets, sent, posts, lastAlert>>

(***************************************************************************)
(* The login screen (lines 125-161).                                       *)
(***************************************************************************)
LoginScreen == currentUser = NoUser

\* disabled={registering}, line 146
UsernameDisabled == registering

\* mutant: the button is not disabled while a registration is in flight
JoinDisabled_ignoresRegistering == Falsy(trim(username))

\* disabled={!username.trim() || registering}, line 152
JoinDisabled == Falsy(trim(username)) \/ registering

\* onChange={(e) => setUsername(e.target.value)}, line 142
setUsername(t) ==
    /\ LoginScreen
    /\ ~UsernameDisabled
    /\ t # username
    /\ username' = t
    /\ event' = Did("setUsername")
    /\ UNCHANGED <<currentUser, messages, newMessage, onlineUsers, ws,
                   isConnected, registering, net>>

\* handleRegister up to its await (lines 42-49)
handleRegister ==
    IF Falsy(trim(username))
    THEN /\ event' = Did("handleRegister:return")
         /\ UNCHANGED <<view, net>>
    ELSE /\ registering' = TRUE
         /\ posts' = Append(posts, [username |-> trim(username)])
         /\ event' = Did("handleRegister")
         /\ UNCHANGED <<currentUser, username, messages, newMessage,
                        onlineUsers, ws, isConnected, sockets, sent,
                        getState, lastAlert>>

\* onClick={handleRegister} on the Join button, lines 150-152
ClickJoin ==
    /\ LoginScreen
    /\ ~JoinDisabled
    /\ handleRegister

\* onKeyPress={(e) => e.key === 'Enter' && handleRegister()}, line 143
UsernameKeyPress(key) ==
    /\ LoginScreen
    /\ ~UsernameDisabled
    /\ IF key = "Enter"
       THEN handleRegister
       ELSE /\ event' = Did("onKeyPress")
            /\ UNCHANGED <<view, net>>

(***************************************************************************)
(* connectWebSocket (lines 61-96).                                         *)
(***************************************************************************)
\* `${WS_URL}/api/ws/${userId}?username=${encodeURIComponent(username)}`
WsUrl(userId, name) ==
    [path |-> userId, username |-> encodeURIComponent(name)]

\* a WebSocket object right after construction
NewSocket(userId, name) ==
    [url |-> WsUrl(userId, name), readyState |-> "CONNECTING",
     opened |-> FALSE, closed |-> FALSE]

\* mutant: the URL is built from the username state cell, which the
\* parameter of the same name shadows, instead of the registered name
connectWebSocket_typedName(userId, name) ==
    /\ sockets' = Append(sockets, NewSocket(userId, username))
    /\ ws' = Len(sockets) + 1

\* const websocket = new WebSocket(...); hooks installed; setWs(websocket)
connectWebSocket(userId, name) ==
    /\ sockets' = Append(sockets, NewSocket(userId, name))
    /\ ws' = Len(sockets) + 1

RemoveAt(q, k) == SubSeq(q, 1, k - 1) \o SubSeq(q, k + 1, Len(q))

\* error.response?.data?.detail || 'Registration failed', line 55
AlertText(err) ==
    IF err.response /\ err.detail # "" THEN err.detail
    ELSE "Registration failed"

\* what `new WebSocket` throws on a URL it cannot parse: no response on it
SyntaxError == [response |-> FALSE, detail |-> ""]

(***************************************************************************)
(* handleRegister after its await (lines 51-58): request k settles.        *)
(***************************************************************************)
handleRegister_resolved(k, user, ctorThrows) ==
    /\ k \in 1..Len(posts)
    /\ user \in RegisterResponses(posts[k])
    /\ posts' = RemoveAt(posts, k)
    /\ currentUser' = user
    /\ IF ctorThrows
       THEN /\ lastAlert' = AlertText(SyntaxError)
            /\ UNCHANGED <<sockets, ws>>
       ELSE /\ connectWebSocket(user.id, user.username)
            /\ UNCHANGED lastAlert
    /\ registering' = FALSE
    /\ event' = Ran(IF ctorThrows THEN "handleRegister:resolved:catch"
                    ELSE "handleRegister:resolved", NoFrame, user, NoError)
    /\ UNCHANGED <<username, messages, newMessage, onlineUsers, isConnected,
                   sent, getState>>

\* mutant: setRegistering(false) is not in a finally block and is skipped
\* when the request fails
handleRegister_rejected_noFinally(k, err) ==
    /\ k \in 1..Len(posts)
    /\ posts' = RemoveAt(posts, k)
    /\ lastAlert' = AlertText(err)
    /\ event' = Ran("handleRegister:catch", NoFrame, NoUser, err)
    /\ UNCHANGED <<currentUser, username, messages, newMessage, onlineUsers,
                   ws, isConnected, registering, sockets, sent, getState>>

handleRegister_rejected(k, err) ==
    /\ k \in 1..Len(posts)
    /\ posts' = RemoveAt(posts, k)
    /\ lastAlert' = AlertText(err)
    /\ registering' = FALSE
    /\ event' = Ran("handleRegister:catch", NoFrame, NoUser, err)
    /\ UNCHANGED <<currentUser, username, messages, newMessage, onlineUsers,
                   ws, isConnected, sockets, sent, getState>>

(***************************************************************************)
(* The hooks of socket i.  The browser fires open once, from CONNECTING;   *)
(* message only while OPEN; error only as part of closing the connection;  *)
(* close once, after which the object fires nothing.                       *)
(***************************************************************************)
\* websocket.onopen, lines 64-67
onopen(i) ==
    /\ i \in 1..Len(sockets)
    /\ sockets[i].readyState = "CONNECTING"
    /\ sockets' = [sockets EXCEPT ![i].readyState = "OPEN", ![i].opened = TRUE]
    /\ isConnected' = TRUE
    /\ event' = Did("onopen")
    /\ UNCHANGED <<currentUser, username, messages, newMessage, onlineUsers,
                   ws, registering, sent, posts, getState, lastAlert>>

\* mutant: the entry's id is taken from the sender's id
MessageEntry_idFromUser(data) ==
    [id |-> data.user_id, user_id |-> data.user_id, username |-> data.username,
     content |-> data.content, timestamp |-> data.timestamp]

\* the object literal of lines 73-79
MessageEntry(data) ==
    [id |-> data.id, user_id |-> data.user_id, username |-> data.username,
     content |-> data.content, timestamp |-> data.timestamp]

\* mutant: the message branch is the fallthrough of the dispatch
NextMessages_fallthrough(prev, data) ==
    IF data.type # "users_online" THEN Append(prev, MessageEntry(data))
    ELSE prev

\* the effect of a parsed frame on messages, lines 72-79
NextMessages(prev, data) ==
    IF data.type = "message" THEN Append(prev, MessageEntry(data)) ELSE prev

\* mutant: a roster is merged into the previous one
NextOnlineUsers_merge(prev, data) ==
    IF data.type = "message" THEN prev
    ELSE IF data.type = "users_online" THEN prev \o data.users
    ELSE prev

\* the effect of a parsed frame on onlineUsers, lines 72 and 80-82
NextOnlineUsers(prev, data) ==
    IF data.type = "message" THEN prev
    ELSE IF data.type = "users_online" THEN data.users
    ELSE prev

\* websocket.onmessage, lines 69-83
onmessage(i, d) ==
    /\ i \in 1..Len(sockets)
    /\ sockets[i].readyState = "OPEN"
    /\ IF ~d.json
       THEN \* JSON.parse throws
            /\ event' = Did("onmessage:throw")
            /\ UNCHANGED <<messages, onlineUsers>>
       ELSE /\ messages' = NextMessages(messages, d.value)
            /\ Len(messages') <= MaxMsgs
            /\ onlineUsers' = NextOnlineUsers(onlineUsers, d.value)
            /\ event' = Ran("onmessage", d.value, NoUser, NoError)
    /\ UNCHANGED <<currentUser, username, newMessage, ws, isConnected,
                   registering, sockets, sent, posts, getState, lastAlert>>

\* websocket.onclose, lines 85-88
onclose(i) ==
    /\ i \in 1..Len(sockets)
    /\ ~sockets[i].closed
    /\ sockets' = [sockets EXCEPT ![i].readyState = "CLOSED", ![i].closed = TRUE]
    /\ isConnected' = FALSE
    /\ event' = Did("onclose")
    /\ UNCHANGED <<currentUser, username, messages, newMessage, onlineUsers,
                   ws, registering, sent, posts, getState, lastAlert>>

\* mutant: the error hook only logs
onerror_logsOnly(i) ==
    /\ i \in 1..Len(sockets)
    /\ sockets[i].readyState # "CLOSED"
    /\ sockets' = [sockets EXCEPT ![i].readyState = "CLOSED"]
    /\ event' = Did("onerror")
    /\ UNCHANGED <<view, sent, posts, getState, lastAlert>>

\* websocket.onerror, lines 90-93; the close event follows it
onerror(i) ==
    /\ i \in 1..Len(sockets)
    /\ sockets[i].readyState # "CLOSED"
    /\ sockets' = [sockets EXCEPT ![i].readyState = "CLOSED"]
    /\ isConnected' = FALSE
    /\ event' = Did("onerror")
    /\ UNCHANGED <<currentUser, username, messages, newMessage, onlineUsers,
                   ws, registering, sent, posts, getState, lastAlert>>

(***************************************************************************)
(* The chat interface (lines 163-274).                                     *)
(***************************************************************************)
ChatInterface == currentUser # NoUser

\* disabled={!isConnected}, line 261
MessageInputDisabled == ~isConnected

\* onChange={(e) => setNewMessage(e.target.value)}, line 257
setNewMessage(t) ==
    /\ ChatInterface
    /\ ~MessageInputDisabled
    /\ t # newMessage
    /\ newMessage' = t
    /\ event' = Did("setNewMessage")
    /\ UNCHANGED <<currentUser, username, messages, onlineUsers, ws,
                   isConnected, registering, net>>

\* {type: 'message', content: ...}, lines 101-104
OutboundFrame(content) == [type |-> "message", content |-> content]

\* mutant: the guard does not test isConnected
sendMessage_returns_noConnected ==
    Falsy(trim(newMessage)) \/ ws = NoSocket

\* if (!newMessage.trim() || !ws || !isConnected) return;  line 99
sendMessage_returns ==
    Falsy(trim(newMessage)) \/ ws = NoSocket \/ ~isConnected

\* sendMessage, lines 98-107
sendMessage ==
    IF sendMessage_returns
    THEN /\ event' = Did("sendMessage:return")
         /\ UNCHANGED <<view, net>>
    ELSE IF sockets[ws].readyState = "CONNECTING"
    THEN \* send() throws InvalidStateError before the input is cleared
         /\ event' = Did("sendMessage:throw")
         /\ UNCHANGED <<view, net>>
    ELSE /\ Len(sent) < MaxSent
         /\ sent' = Append(sent, [socket |-> ws,
                                  data |-> OutboundFrame(trim(newMessage))])
         /\ newMessage' = <<>>
         /\ event' = Did("sendMessage")
         /\ UNCHANGED <<currentUser, username, messages, onlineUsers, ws,
                        isConnected, registering, sockets, posts, getState,
                        lastAlert>>

\* onClick={sendMessage} on the Send button, line 264.  The button's
\* disabled attribute (line 265) repeats conditions sendMessage tests
\* itself, so the handler is taken as callable whenever it is rendered.
ClickSend ==
    /\ ChatInterface
    /\ sendMessage

\* handleKeyPress, lines 109-114, on the message input (line 258)
handleKeyPress(key, shiftKey) ==
    /\ ChatInterface
    /\ ~MessageInputDisabled
    /\ IF key = "Enter" /\ ~shiftKey
       THEN sendMessage
       ELSE /\ event' = Did("handleKeyPress")
            /\ UNCHANGED <<view, net>>

Keys == {"Enter", "a"}

(***************************************************************************)
(* The specification.                                                      *)
(***************************************************************************)
Next ==
    \/ \E data \in Histories : loadMessages_resolved(data)
    \/ loadMessages_rejected
    \/ \E t \in Texts : setUsername(t)
    \/ ClickJoin
    \/ \E key \in Keys : UsernameKeyPress(key)
    \/ \E k \in DOMAIN posts, ctorThrows \in BOOLEAN :
           \E user \in RegisterResponses(posts[k]) :
               handleRegister_resolved(k, user, ctorThrows)
    \/ \E k \in DOMAIN posts, err \in RegisterErrors :
           handleRegister_rejected(k, err)
    \/ \E i \in DOMAIN sockets : onopen(i)
    \/ \E i \in DOMAIN sockets, d \in EventData : onmessage(i, d)
    \/ \E i \in DOMAIN sockets : onclose(i)
    \/ \E i \in DOMAIN sockets : onerror(i)
    \/ \E t \in Texts : setNewMessage(t)
    \/ ClickSend
    \/ \E key \in Keys, shiftKey \in BOOLEAN : handleKeyPress(key, shiftKey)

Spec == Init /\ [][Next]_vars

(***************************************************************************)
(* Helpers of the properties.                                              *)
(***************************************************************************)
IsPrefix(p, q) == Len(p) <= Len(q) /\ SubSeq(q, 1, Len(p)) = p

Count(id, list) == Cardinality({j \in DOMAIN list : list[j].id = id})

Ids(list) == {list[j].id : j \in DOMAIN list}

\* sendMessage was the handler that ran last, however it ended
SendMessageRan(e) ==
    e.op \in {"sendMessage", "sendMessage:return", "sendMessage:throw"}

\* onmessage ran to its end on a parsed frame
FrameHandled(e) == e.op = "onmessage"

\* the close or the error hook of some socket has fired
HookFired == \E i \in DOMAIN sockets : sockets[i].readyState = "CLOSED"

(***************************************************************************)
(* C1.  sendMessage gating.  A call of sendMessage with a non-blank input, *)
(* ws set and isConnected true sends exactly one frame                     *)
(* {type: "message", content: <trimmed input>} on ws and empties the input *)
(* field; a call while isConnected is false sends nothing and leaves the   *)
(* input field as it was.                                                  *)
(***************************************************************************)
C1_SendGating ==
    [][ SendMessageRan(event') =>
          /\ (~Falsy(trim(newMessage)) /\ ws # NoSocket /\ isConnected) =>
                /\ sent' = Append(sent,
                      [socket |-> ws,
                       data |-> [type |-> "message",
                                 content |-> trim(newMessage)]])
                /\ newMessage' = <<>>
          /\ ~isConnected => (sent' = sent /\ newMessage' = newMessage)
      ]_vars

\* a frame went out while connected and, after the connection was lost, a
\* call with a non-blank input has returned without sending
C1_Witness ==
    /\ event.op = "sendMessage:return"
    /\ ~isConnected
    /\ ~Falsy(trim(newMessage))
    /\ Len(sent) = 1
    /\ sent[1].data = [type |-> "message", content |-> <<"a">>]

(***************************************************************************)
(* C2.  Stranded session.  Once the close or error hook has fired,         *)
(* isConnected is false and stays false, no WebSocket is constructed any   *)
(* more and no frame is sent any more.                                     *)
(***************************************************************************)
C2_Stranded ==
    /\ [](HookFired => ~isConnected)
    /\ [][ HookFired =>
             /\ HookFired'
             /\ ~isConnected'
             /\ Len(sockets') = Len(sockets)
             /\ ws' = ws
             /\ sent' = sent ]_vars

\* after the error hook alone has fired, a send with a non-blank input
\* was attempted
C2_Witness ==
    /\ HookFired
    /\ \E i \in DOMAIN sockets : sockets[i].opened /\ ~sockets[i].closed
    /\ event.op = "sendMessage:return"
    /\ ~Falsy(trim(newMessage))

(***************************************************************************)
(* C3.  Bootstrap ordering.  A WebSocket is constructed only by the        *)
(* continuation of a registration that succeeded, for the id and username  *)
(* that registration returned, which become the current User; and every    *)
(* frame sent went out on a socket whose open hook had fired.              *)
(***************************************************************************)
C3_BootstrapOrder ==
    /\ [](\A j \in DOMAIN sent : sockets[sent[j].socket].opened)
    /\ [][ sockets' # sockets /\ Len(sockets') # Len(sockets) =>
             /\ event'.op = "handleRegister:resolved"
             /\ Len(sockets') = Len(sockets) + 1
             /\ ws' = Len(sockets')
             /\ currentUser' = event'.user
             /\ sockets'[ws'].url =
                  [path |-> event'.user.id,
                   username |-> encodeURIComponent(event'.user.username)]
             /\ ~sockets'[ws'].opened
             /\ sent' = sent ]_vars

\* registered as "a a", connected with the name percent-encoded, then sent
C3_Witness ==
    /\ ws # NoSocket
    /\ currentUser = [id |-> "u1", username |-> <<"a", " ", "a">>]
    /\ sockets[ws].url = [path |-> "u1",
                          username |-> <<"a", "%", "2", "0", "a">>]
    /\ sent # <<>>

(***************************************************************************)
(* C4.  An inbound frame of type "message" appends exactly one entry to    *)
(* the message list, made of the frame's id, user_id, username, content    *)
(* and timestamp; the earlier entries keep their value and position.       *)
(***************************************************************************)
C4_MessageAppended ==
    [][ (FrameHandled(event') /\ event'.frame.type = "message") =>
          messages' = Append(messages,
              [id |-> event'.frame.id,
               user_id |-> event'.frame.user_id,
               username |-> event'.frame.username,
               content |-> event'.frame.content,
               timestamp |-> event'.frame.timestamp]) ]_vars

\* the frame for M2 was handled on top of the loaded history <<M1>>
C4_Witness ==
    /\ FrameHandled(event)
    /\ event.frame = MessageFrame(M2)
    /\ getState = "done"
    /\ messages = <<M1, M2>>

(***************************************************************************)
(* C5.  An inbound frame of type "users_online" makes the presence set     *)
(* the roster of that frame, whatever it was before, and leaves the        *)
(* message list alone; nothing else changes the presence set, so it always *)
(* is the roster of the most recent users_online frame.                    *)
(***************************************************************************)
C5_RosterReplaced ==
    [][ IF FrameHandled(event') /\ event'.frame.type = "users_online"
        THEN onlineUsers' = event'.frame.users /\ messages' = messages
        ELSE onlineUsers' = onlineUsers ]_vars

\* an empty roster has replaced whatever was there, with messages present
C5_Witness ==
    /\ FrameHandled(event)
    /\ event.frame = UsersOnlineFrame(<<>>)
    /\ onlineUsers = <<>>
    /\ messages # <<>>

(***************************************************************************)
(* C6.  One transport connection per session: at most one WebSocket is     *)
(* ever constructed, and the current User, once set, never changes.        *)
(***************************************************************************)
C6_OneConnection ==
    /\ [](Len(sockets) <= 1)
    /\ [][ currentUser # NoUser => currentUser' = currentUser ]_vars

\* a registration failed, a later one succeeded and opened the socket
C6_Witness ==
    /\ Len(sockets) = 1
    /\ currentUser # NoUser
    /\ lastAlert # ""
    /\ sockets[1].closed

(***************************************************************************)
(* C7.  The message list is append-only: in every step the previous list   *)
(* is a prefix of the next one.                                            *)
(***************************************************************************)
C7_AppendOnly == [][ IsPrefix(messages, messages') ]_vars

(***************************************************************************)
(* C8.  A failed registration leaves the session un-started and            *)
(* retryable: the current User stays unset, no WebSocket is constructed,   *)
(* the alert shows the server's detail (or the default text), registering  *)
(* is false again and the Join button can issue a fresh request; and       *)
(* registering is false after every settled registration.                  *)
(***************************************************************************)
C8_FailureRetryable ==
    /\ [](event.op = "handleRegister:catch" =>
            /\ currentUser = NoUser
            /\ ~registering
            /\ posts = <<>>
            /\ ENABLED ClickJoin)
    /\ [][ event'.op = "handleRegister:catch" =>
             /\ currentUser' = currentUser
             /\ sockets' = sockets
             /\ ws' = ws
             /\ lastAlert' =
                  (IF event'.error.response /\ event'.error.detail # ""
                   THEN event'.error.detail ELSE "Registration failed") ]_vars
    /\ [][ event'.op \in {"handleRegister:catch", "handleRegister:resolved",
                          "handleRegister:resolved:catch"} =>
             ~registering' ]_vars

\* after a failure shown to the user, a fresh request is in flight
C8_Witness ==
    /\ event.op = "handleRegister"
    /\ lastAlert = "Username already taken"
    /\ currentUser = NoUser
    /\ Len(posts) = 1
    /\ sockets = <<>>

(***************************************************************************)
(* C9.  An inbound frame whose type is neither "message" nor               *)
(* "users_online" is ignored: the handler ends normally and messages,      *)
(* onlineUsers, isConnected, currentUser and newMessage are unchanged.     *)
(***************************************************************************)
C9_UnknownIgnored ==
    [][ \A d \in EventData :
          (d.json /\ d.value.type \notin {"message", "users_online"}
             /\ \E i \in DOMAIN sockets : onmessage(i, d)) =>
            /\ FrameHandled(event')
            /\ UNCHANGED <<messages, onlineUsers, isConnected, currentUser,
                           newMessage>> ]_vars

\* a "typing" frame was handled with messages and a roster present
C9_Witness ==
    /\ FrameHandled(event)
    /\ event.frame = OtherFrame("typing")
    /\ messages # <<>>
    /\ onlineUsers # <<>>

(***************************************************************************)
(* C10.  No deduplication: when the bulk load and a realtime frame both    *)
(* describe a message with the same id, then once both have been handled   *)
(* the list holds two entries with that id, in whichever order the two     *)
(* arrive.  The step that handles the second of the two is the bulk load   *)
(* (the list then holds only entries that came in frames) or the frame.    *)
(***************************************************************************)
C10_NoDedup ==
    [][ /\ event'.op = "loadMessages" =>
             \A id \in Ids(event'.data) \cap Ids(messages) :
                 Count(id, messages') >= 2
        /\ (FrameHandled(event') /\ event'.frame.type = "message"
              /\ getState = "done") =>
             (event'.frame.id \in Ids(messages) =>
                 Count(event'.frame.id, messages') >= 2) ]_vars

====
